---- MODULE Spec2Model ----
\* Bridge Connection Manager of openclaw-face-server (src/src/chat/bridge.service.ts,
\* the BridgeService with the challenge/response handshake, lines 183-651).
\*
\* One bridge per client id maps a frontend session onto an upstream WebSocket.
\* The handlers registered in connectToGateway are closures over (clientId, bridge, ws):
\* the model keeps, for every transport and timer, the client id and the identity of the
\* bridge object the closure captured, so that events of an old transport act on whatever
\* the code makes them act on.
EXTENDS Integers, Sequences, FiniteSets, TLC

\* ---------------------------------------------------------------- bounds
Clients == {"c1"}
MaxTransports == 3
MaxBridges == 2
MaxQueue == 2
TickMs == 5000

\* ---------------------------------------------------------------- program constants
ReconnectDelay == 5000
DefaultHistoryLimit == 50
MinProtocol == 3
MaxProtocol == 3

NoWs == 0
NoTimer == 0
NoIdentity == [deviceId |-> "", publicKey |-> "", privateKey |-> ""]
KeyMaterial == {"k1"}
UuidPool == {"u1"}
Timestamps == {1000}
GatewayToken == "tok"
DefaultSessionKey == "main"
Scopes == <<"operator.read", "operator.write">>
IgnoredEvents == {"tick", "health", "presence", "heartbeat", "shutdown"}

VARIABLES
  phase,           \* "constructed" before onModuleInit, "running" after
  deviceIdentity,  \* BridgeService.deviceIdentity
  gatewayUrlOk,    \* whether new WebSocket(gatewayUrl) succeeds (the URL is fixed at construction)
  bridges,         \* BridgeService.bridges: clientId -> BridgeConnection
  sockets,         \* the WebSocket objects that are not CLOSED, by creation number; helloOk
                   \* records that the gateway sent its success response on the transport
  timers,          \* the pending setTimeout handles, named after the transport whose close armed them
  nextWs,          \* number of the next WebSocket object
  nextObj,         \* number of the next BridgeConnection object
  hung,            \* TRUE once the process spins forever inside a handler
  authenticatedClients,  \* ChatGateway.authenticatedClients: the client ids set to true
  clients,         \* the socket.io clients of ChatGateway that have connected, by client.id,
                   \* each with the events emitted to it so far
  lastStep         \* what the last step was and what it wrote and delivered

vars == <<phase, deviceIdentity, gatewayUrlOk, bridges, sockets, timers, nextWs, nextObj,
          hung, authenticatedClients, clients, lastStep>>

\* ---------------------------------------------------------------- helpers
Has(r, f) == f \in DOMAIN r

Without(f, k) == [x \in (DOMAIN f) \ {k} |-> f[x]]

With(f, k, v) == [x \in (DOMAIN f) \cup {k} |-> IF x = k THEN v ELSE f[x]]

Min(a, b) == IF a < b THEN a ELSE b

\* ---------------------------------------------------------------- inputs
\* Client messages as ChatGateway builds them (chat.gateway.ts 101-104, 121-124).
ClientMsgShapes ==
  { [type |-> "message", text |-> "hi"],
    [type |-> "history", limit |-> 10] }

\* Frames the gateway may send (GatewayMessage, bridge.service.ts 167-175).
ChallengeFrame == [type |-> "event", event |-> "connect.challenge",
                   payload |-> [nonce |-> "abc", ts |-> 1000]]
HelloOkFrame == [type |-> "res", id |-> "u1", ok |-> TRUE, payload |-> [type |-> "hello-ok"]]
FailFrame == [type |-> "res", id |-> "u1", ok |-> FALSE, error |-> [code |-> "denied"]]
ChatFrame == [type |-> "event", event |-> "chat", payload |-> [text |-> "yo"]]

InboundFrames == {ChallengeFrame, HelloOkFrame, FailFrame, ChatFrame}

\* The other frames handleGatewayMessage tells apart (lines 383-419).
IgnoredFrames == {[type |-> "event", event |-> e] : e \in IgnoredEvents}

AgentPayloads ==
  { [delta |-> [text |-> "tok"], runId |-> "r1"],
    [status |-> "completed", runId |-> "r1"],
    [status |-> "done", runId |-> "r1"],
    [status |-> "running", runId |-> "r1"],
    [delta |-> [text |-> "tok"], status |-> "done", runId |-> "r1"],
    [delta |-> [text |-> ""], runId |-> "r1"] }

AgentFrames ==
  {[type |-> "event", event |-> "agent", payload |-> p] : p \in AgentPayloads}
    \cup {[type |-> "event", event |-> "agent"]}

FailNoErrorFrame == [type |-> "res", id |-> "u1", ok |-> FALSE]
OtherResFrame == [type |-> "res", id |-> "u1", ok |-> TRUE, payload |-> [messages |-> <<>>]]
UnknownEventFrame == [type |-> "event", event |-> "session.updated"]
ChallengeNoPayloadFrame == [type |-> "event", event |-> "connect.challenge"]

GatewayFrames ==
  InboundFrames \cup IgnoredFrames \cup AgentFrames
    \cup {FailNoErrorFrame, OtherResFrame, UnknownEventFrame, ChallengeNoPayloadFrame}

\* The store the handlers work on: the service's state plus what the running handler
\* has written to transports and delivered to callbacks so far; signThrows tells whether
\* crypto's sign raises in this run.
Store(u) ==
  [bridges |-> bridges, sockets |-> sockets, timers |-> timers, nextWs |-> nextWs,
   nextObj |-> nextObj, hung |-> FALSE, threw |-> FALSE, signThrows |-> FALSE,
   wrote |-> <<>>, cbs |-> <<>>, uuids |-> u]

\* The messages the translator is given: chat messages with their trimmed, non-empty text
\* (chat.gateway.ts 94-104), history requests with a limit (chat.gateway.ts 121-124) or,
\* from other callers, without one, and the typing notice (chat.gateway.ts 134-136).
TranslatorInputs ==
  {[type |-> "message", text |-> t] : t \in {"hi", "how are you"}}
    \cup {[type |-> "history", limit |-> n] : n \in {1, 10, 100}}
    \cup {[type |-> "history"], [type |-> "user_typing"]}

\* request ids that differ from one uuidv4() call to the next
TranslatorUuidSupplies ==
  {[i \in 1..(MaxQueue + 1) |-> IF (i + k) % 2 = 0 THEN "u1" ELSE "u2"] : k \in {0, 1}}

\* the request ids uuidv4() hands to one handler run
UuidSupplies == {[i \in 1..(MaxQueue + 1) |-> u] : u \in UuidPool}

Undefined == [undefined |-> TRUE]

Malformed == [malformed |-> TRUE]

Payload(message) == IF Has(message, "payload") THEN message.payload ELSE Undefined

\* ---------------------------------------------------------------- the ws library
\* WebSocket.readyState; a socket that emitted 'close' is CLOSED and no longer tracked
ReadyState(st, w) == IF w \in DOMAIN st.sockets THEN st.sockets[w].readyState ELSE "CLOSED"

\* WebSocket.close(): OPEN starts the closing handshake (frames the peer sent before its
\* own close frame are still delivered), CONNECTING aborts the handshake, otherwise no-op
wsClose(st, w) ==
  IF ReadyState(st, w) = "OPEN"
    THEN [st EXCEPT !.sockets[w].readyState = "CLOSING"]
  ELSE IF ReadyState(st, w) = "CONNECTING"
    THEN [st EXCEPT !.sockets[w].readyState = "CLOSING", !.sockets[w].recv = FALSE]
  ELSE st

\* WebSocket.send(JSON.stringify(data)) on an OPEN socket
wsSend(st, w, data) == [st EXCEPT !.wrote = Append(@, [ws |-> w, data |-> data])]

clearTimeout(st, t) == [st EXCEPT !.timers = Without(@, t)]

\* a notification handed to the callback of every bridge in the map, as a broadcast on
\* the socket.io server would do
onMessage_broadcast(st, c, note) ==
  LET ids == DOMAIN st.bridges
      order == CHOOSE s \in [1..Cardinality(ids) -> ids] :
                 \A i, j \in 1..Cardinality(ids) : i # j => s[i] # s[j]
  IN [st EXCEPT !.cbs = @ \o [i \in 1..Cardinality(ids) |->
                                [cb |-> st.bridges[order[i]].obj, cid |-> order[i],
                                 note |-> note, after |-> Len(st.wrote)]]]

\* bridge.onMessage(note) of the bridge stored under c; after is the number of frames the
\* running handler had written when the callback was invoked
onMessage(st, c, note) ==
  [st EXCEPT !.cbs = Append(@, [cb |-> st.bridges[c].obj, cid |-> c, note |-> note,
                                after |-> Len(st.wrote)])]

\* whether the bridge object a closure captured is the one stored under c
IsCurrent(st, c, obj) == c \in DOMAIN st.bridges /\ st.bridges[c].obj = obj

\* ---------------------------------------------------------------- BridgeService
\* closeBridge without the clearTimeout of lines 636-638
closeBridge_keepTimer(st, c) ==
  IF c \notin DOMAIN st.bridges THEN st
  ELSE
    LET bridge == st.bridges[c]
        s2 == IF bridge.ws # NoWs THEN wsClose(st, bridge.ws) ELSE st
    IN [s2 EXCEPT !.bridges = Without(@, c)]

closeBridge(st, c) ==
  IF c \notin DOMAIN st.bridges THEN st
  ELSE
    LET bridge == st.bridges[c]
        s1 == IF bridge.reconnectTimeout # NoTimer
                THEN clearTimeout(st, bridge.reconnectTimeout) ELSE st
        s2 == IF bridge.ws # NoWs THEN wsClose(s1, bridge.ws) ELSE s1
    IN [s2 EXCEPT !.bridges = Without(@, c)]

connectToGateway(st, c) ==
  IF c \notin DOMAIN st.bridges THEN st
  ELSE IF ~gatewayUrlOk THEN st
  ELSE
    LET ws == st.nextWs
    IN [st EXCEPT
          !.sockets = With(@, ws, [cid |-> c, obj |-> st.bridges[c].obj,
                                   readyState |-> "CONNECTING", recv |-> FALSE,
                                   helloOk |-> FALSE]),
          !.nextWs = @ + 1,
          !.bridges[c].ws = ws]

\* createBridge without the close of the existing bridge of lines 282-284
createBridge_noClose(st, c) ==
  LET bridge == [obj |-> st.nextObj, ws |-> NoWs, authenticated |-> FALSE,
                 messageQueue |-> <<>>, reconnectTimeout |-> NoTimer]
      s2 == [st EXCEPT !.bridges = With(@, c, bridge), !.nextObj = @ + 1]
  IN connectToGateway(s2, c)

createBridge(st, c) ==
  LET s1 == IF c \in DOMAIN st.bridges THEN closeBridge(st, c) ELSE st
      bridge == [obj |-> s1.nextObj, ws |-> NoWs, authenticated |-> FALSE,
                 messageQueue |-> <<>>, reconnectTimeout |-> NoTimer]
      s2 == [s1 EXCEPT !.bridges = With(@, c, bridge), !.nextObj = @ + 1]
  IN connectToGateway(s2, c)

\* convertToGatewayFormat that always asks for the default number of history entries, as
\* the earlier BridgeService did on open (line 65)
convertToGatewayFormat_fixedLimit(st, c, message, reqId) ==
  IF Has(message, "type") /\ message.type = "message"
     /\ Has(message, "text") /\ message.text # ""
    THEN [type |-> "req", id |-> reqId, method |-> "agent",
          params |-> [message |-> message.text, sessionKey |-> DefaultSessionKey,
                      idempotencyKey |-> reqId]]
  ELSE IF Has(message, "type") /\ message.type = "history"
    THEN [type |-> "req", id |-> reqId, method |-> "sessions.history",
          params |-> [sessionKey |-> DefaultSessionKey, limit |-> DefaultHistoryLimit]]
  ELSE message

convertToGatewayFormat(st, c, message, reqId) ==
  LET bridge == IF c \in DOMAIN st.bridges THEN st.bridges[c] ELSE Undefined
      sessionKey == IF Has(bridge, "sessionKey") /\ bridge.sessionKey # ""
                      THEN bridge.sessionKey ELSE DefaultSessionKey
  IN IF Has(message, "type") /\ message.type = "message"
        /\ Has(message, "text") /\ message.text # ""
       THEN [type |-> "req", id |-> reqId, method |-> "agent",
             params |-> [message |-> message.text, sessionKey |-> sessionKey,
                         idempotencyKey |-> reqId]]
     ELSE IF Has(message, "type") /\ message.type = "history"
       THEN [type |-> "req", id |-> reqId, method |-> "sessions.history",
             params |-> [sessionKey |-> sessionKey,
                         limit |-> IF Has(message, "limit") /\ message.limit # 0
                                     THEN message.limit ELSE DefaultHistoryLimit]]
     ELSE message

\* sendMessage that drops the message when the transport is not open, as the
\* earlier BridgeService did (lines 114-118)
sendMessage_dropWhenNotOpen(st, c, message) ==
  IF c \notin DOMAIN st.bridges THEN st
  ELSE
    LET bridge == st.bridges[c]
    IN IF ~bridge.authenticated
         THEN [st EXCEPT !.bridges[c].messageQueue = Append(@, message)]
       ELSE IF bridge.ws = NoWs \/ ReadyState(st, bridge.ws) # "OPEN"
         THEN st
       ELSE
         LET gatewayMessage == convertToGatewayFormat(st, c, message, Head(st.uuids))
             s1 == wsSend(st, bridge.ws, gatewayMessage)
         IN [s1 EXCEPT !.uuids = Tail(@)]

\* sendMessage that opens a bridge for an unknown client id instead of returning
sendMessage_lazyCreate(st, c, message) ==
  IF c \notin DOMAIN st.bridges
    THEN [createBridge(st, c) EXCEPT !.bridges[c].messageQueue = <<message>>]
  ELSE
    LET bridge == st.bridges[c]
    IN IF ~bridge.authenticated
         THEN [st EXCEPT !.bridges[c].messageQueue = Append(@, message)]
       ELSE IF bridge.ws = NoWs \/ ReadyState(st, bridge.ws) # "OPEN"
         THEN [st EXCEPT !.bridges[c].messageQueue = Append(@, message)]
       ELSE
         LET gatewayMessage == convertToGatewayFormat(st, c, message, Head(st.uuids))
             s1 == wsSend(st, bridge.ws, gatewayMessage)
         IN [s1 EXCEPT !.uuids = Tail(@)]

sendMessage(st, c, message) ==
  IF c \notin DOMAIN st.bridges THEN st
  ELSE
    LET bridge == st.bridges[c]
    IN IF ~bridge.authenticated
         THEN [st EXCEPT !.bridges[c].messageQueue = Append(@, message)]
       ELSE IF bridge.ws = NoWs \/ ReadyState(st, bridge.ws) # "OPEN"
         THEN [st EXCEPT !.bridges[c].messageQueue = Append(@, message)]
       ELSE
         LET gatewayMessage == convertToGatewayFormat(st, c, message, Head(st.uuids))
             s1 == wsSend(st, bridge.ws, gatewayMessage)
         IN [s1 EXCEPT !.uuids = Tail(@)]

\* sendRaw that applies sendMessage's authentication check instead of bypassing it
sendRaw_requireAuth(st, c, message) ==
  IF c \notin DOMAIN st.bridges THEN st
  ELSE IF st.bridges[c].ws = NoWs \/ ReadyState(st, st.bridges[c].ws) # "OPEN" THEN st
  ELSE IF ~st.bridges[c].authenticated THEN st
  ELSE wsSend(st, st.bridges[c].ws, message)

sendRaw(st, c, message) ==
  IF c \notin DOMAIN st.bridges THEN st
  ELSE IF st.bridges[c].ws = NoWs \/ ReadyState(st, st.bridges[c].ws) # "OPEN" THEN st
  ELSE wsSend(st, st.bridges[c].ws, message)

\* signMessage: the signature is a function of the key and of the exact signed string
signMessage(message) == <<"ed25519", deviceIdentity.privateKey>> \o message

\* handleConnectChallenge that sends the connect request without a signature when it
\* has no identity or signing fails
handleConnectChallenge_unsigned(st, c, payload, signedAt) ==
  IF c \notin DOMAIN st.bridges THEN st
  ELSE IF st.bridges[c].ws = NoWs THEN st
  ELSE IF payload = Undefined THEN [st EXCEPT !.threw = TRUE]
  ELSE
    LET nonce == IF Has(payload, "nonce") THEN payload.nonce ELSE ""
        signaturePayload == <<"v2", deviceIdentity.deviceId, "cli", "cli", "operator",
                              "operator.read,operator.write", ToString(signedAt),
                              GatewayToken, nonce>>
        signature == IF st.signThrows \/ deviceIdentity = NoIdentity
                       THEN <<>> ELSE signMessage(signaturePayload)
        device == [id |-> deviceIdentity.deviceId, publicKey |-> deviceIdentity.publicKey,
                   signature |-> signature, signedAt |-> signedAt]
        connectRequest ==
          [type |-> "req", id |-> Head(st.uuids), method |-> "connect",
           params |-> [minProtocol |-> MinProtocol, maxProtocol |-> MaxProtocol,
                       client |-> [id |-> "cli", version |-> "1.0.0",
                                   platform |-> "linux", mode |-> "cli"],
                       role |-> "operator", scopes |-> Scopes, caps |-> <<>>,
                       commands |-> <<>>, auth |-> [token |-> GatewayToken],
                       locale |-> "en-US", userAgent |-> "openclaw-face-bridge/1.0.0",
                       device |-> IF Has(payload, "nonce")
                                    THEN With(device, "nonce", payload.nonce)
                                    ELSE device]]
    IN sendRaw([st EXCEPT !.uuids = Tail(@)], c, connectRequest)

handleConnectChallenge(st, c, payload, signedAt) ==
  IF c \notin DOMAIN st.bridges THEN st
  ELSE IF st.bridges[c].ws = NoWs \/ deviceIdentity = NoIdentity THEN st
  ELSE IF payload = Undefined THEN [st EXCEPT !.threw = TRUE]
  ELSE IF st.signThrows THEN st
  ELSE
    LET nonce == IF Has(payload, "nonce") THEN payload.nonce ELSE ""
        signaturePayload == <<"v2", deviceIdentity.deviceId, "cli", "cli", "operator",
                              "operator.read,operator.write", ToString(signedAt),
                              GatewayToken, nonce>>
        signature == signMessage(signaturePayload)
        device == [id |-> deviceIdentity.deviceId, publicKey |-> deviceIdentity.publicKey,
                   signature |-> signature, signedAt |-> signedAt]
        connectRequest ==
          [type |-> "req", id |-> Head(st.uuids), method |-> "connect",
           params |-> [minProtocol |-> MinProtocol, maxProtocol |-> MaxProtocol,
                       client |-> [id |-> "cli", version |-> "1.0.0",
                                   platform |-> "linux", mode |-> "cli"],
                       role |-> "operator", scopes |-> Scopes, caps |-> <<>>,
                       commands |-> <<>>, auth |-> [token |-> GatewayToken],
                       locale |-> "en-US", userAgent |-> "openclaw-face-bridge/1.0.0",
                       device |-> IF Has(payload, "nonce")
                                    THEN With(device, "nonce", payload.nonce)
                                    ELSE device]]
    IN sendRaw([st EXCEPT !.uuids = Tail(@)], c, connectRequest)

\* the while loop of handleConnectSuccess; seen holds the queue contents the loop has
\* already started an iteration with: meeting one again means the loop never ends
RECURSIVE drainQueue(_, _, _)
drainQueue(st, c, seen) ==
  LET queue == st.bridges[c].messageQueue
  IN IF queue = <<>> THEN st
     ELSE IF queue \in seen THEN [st EXCEPT !.hung = TRUE]
     ELSE drainQueue(sendMessage([st EXCEPT !.bridges[c].messageQueue = Tail(@)],
                                 c, Head(queue)),
                     c, seen \cup {queue})

\* handleConnectSuccess that notifies the client before it drains the queue
handleConnectSuccess_notifyFirst(st, c, payload) ==
  IF c \notin DOMAIN st.bridges THEN st
  ELSE
    LET s1 == [st EXCEPT !.bridges[c].authenticated = TRUE]
        s2 == onMessage(s1, c, [type |-> "gateway_connected",
                                payload |-> [status |-> "connected"]])
    IN drainQueue(s2, c, {})

handleConnectSuccess(st, c, payload) ==
  IF c \notin DOMAIN st.bridges THEN st
  ELSE
    LET s1 == [st EXCEPT !.bridges[c].authenticated = TRUE]
        s2 == drainQueue(s1, c, {})
    IN IF s2.hung THEN s2
       ELSE onMessage(s2, c, [type |-> "gateway_connected",
                              payload |-> [status |-> "connected"]])

\* handleAgentEvent that tests the status before the delta
handleAgentEvent_statusFirst(st, c, payload) ==
  IF c \notin DOMAIN st.bridges THEN st
  ELSE IF payload = Undefined THEN [st EXCEPT !.threw = TRUE]
  ELSE IF Has(payload, "status") /\ payload.status \in {"completed", "done"}
    THEN onMessage(st, c, [type |-> "response_complete",
                           runId |-> IF Has(payload, "runId") THEN payload.runId ELSE ""])
  ELSE IF Has(payload, "delta") /\ Has(payload.delta, "text") /\ payload.delta.text # ""
    THEN onMessage(st, c, [type |-> "response", content |-> payload.delta.text,
                           streaming |-> TRUE,
                           runId |-> IF Has(payload, "runId") THEN payload.runId ELSE ""])
  ELSE st

\* handleAgentEvent with two independent tests instead of if / else if
handleAgentEvent_both(st, c, payload) ==
  IF c \notin DOMAIN st.bridges THEN st
  ELSE IF payload = Undefined THEN [st EXCEPT !.threw = TRUE]
  ELSE
    LET s1 == IF Has(payload, "delta") /\ Has(payload.delta, "text") /\ payload.delta.text # ""
                THEN onMessage(st, c, [type |-> "response", content |-> payload.delta.text,
                                       streaming |-> TRUE,
                                       runId |-> IF Has(payload, "runId")
                                                   THEN payload.runId ELSE ""])
                ELSE st
    IN IF Has(payload, "status") /\ payload.status \in {"completed", "done"}
         THEN onMessage(s1, c, [type |-> "response_complete",
                                runId |-> IF Has(payload, "runId") THEN payload.runId ELSE ""])
         ELSE s1

handleAgentEvent(st, c, payload) ==
  IF c \notin DOMAIN st.bridges THEN st
  ELSE IF payload = Undefined THEN [st EXCEPT !.threw = TRUE]
  ELSE IF Has(payload, "delta") /\ Has(payload.delta, "text") /\ payload.delta.text # ""
    THEN onMessage(st, c, [type |-> "response", content |-> payload.delta.text,
                           streaming |-> TRUE,
                           runId |-> IF Has(payload, "runId") THEN payload.runId ELSE ""])
  ELSE IF Has(payload, "status") /\ payload.status \in {"completed", "done"}
    THEN onMessage(st, c, [type |-> "response_complete",
                           runId |-> IF Has(payload, "runId") THEN payload.runId ELSE ""])
  ELSE st

handleGatewayMessage(st, c, message, now) ==
  LET type == IF Has(message, "type") THEN message.type ELSE ""
      event == IF Has(message, "event") THEN message.event ELSE ""
      ok == Has(message, "ok") /\ message.ok = TRUE
      payload == Payload(message)
  IN IF c \notin DOMAIN st.bridges THEN st
     ELSE IF type = "event" /\ event = "connect.challenge"
       THEN handleConnectChallenge(st, c, payload, now)
     ELSE IF type = "res" /\ ok /\ payload # Undefined /\ Has(payload, "type")
             /\ payload.type = "hello-ok"
       THEN handleConnectSuccess(st, c, payload)
     ELSE IF type = "res" /\ ~ok
       THEN onMessage(st, c, IF Has(message, "error")
                               THEN [type |-> "error", error |-> message.error]
                               ELSE [type |-> "error"])
     ELSE IF type = "event" /\ event = "agent"
       THEN handleAgentEvent(st, c, payload)
     ELSE IF type = "event" /\ event = "chat"
       THEN onMessage(st, c, payload)
     ELSE IF type = "event" /\ event \in IgnoredEvents THEN st
     ELSE IF type = "res" THEN onMessage(st, c, message)
     ELSE st

\* the test of lines 373-377: a successful response to the connect request
IsHelloOk(message) ==
  /\ Has(message, "type") /\ message.type = "res"
  /\ Has(message, "ok") /\ message.ok = TRUE
  /\ Has(message, "payload") /\ Has(message.payload, "type")
  /\ message.payload.type = "hello-ok"

\* the 'message' handler of the earlier BridgeService (lines 68-76), which forwards every
\* parsed frame to the client
wsOnMessage_forwardAll(st, w, data, now) ==
  IF data = Malformed THEN [st EXCEPT !.threw = TRUE]
  ELSE IF st.sockets[w].cid \in DOMAIN st.bridges
    THEN onMessage(st, st.sockets[w].cid, data)
  ELSE st

\* a 'message' handler that closes the transport on a frame it cannot handle
wsOnMessage_closeOnError(st, w, data, now) ==
  IF data = Malformed THEN wsClose([st EXCEPT !.threw = TRUE], w)
  ELSE
    LET r == handleGatewayMessage(st, st.sockets[w].cid, data, now)
    IN IF r.threw THEN wsClose(r, w) ELSE r

\* a 'message' handler that gives the session up when the gateway refuses a request
wsOnMessage_closeOnFailure(st, w, data, now) ==
  IF data = Malformed THEN [st EXCEPT !.threw = TRUE]
  ELSE
    LET r == handleGatewayMessage(st, st.sockets[w].cid, data, now)
    IN IF Has(data, "type") /\ data.type = "res" /\ ~(Has(data, "ok") /\ data.ok = TRUE)
         THEN closeBridge(r, st.sockets[w].cid)
         ELSE r

\* the ws 'message' handler: JSON.parse, then handleGatewayMessage, inside one try/catch
wsOnMessage(st, w, data, now) ==
  IF data = Malformed THEN [st EXCEPT !.threw = TRUE]
  ELSE
    LET r == handleGatewayMessage(st, st.sockets[w].cid, data, now)
    IN r

\* the ws 'open' handler: bridge.ws = ws on the captured bridge object
wsOnOpen(st, w) ==
  LET c == st.sockets[w].cid
  IN IF IsCurrent(st, c, st.sockets[w].obj) THEN [st EXCEPT !.bridges[c].ws = w] ELSE st

\* the ws 'close' handler: the field writes go to the captured bridge object (they are
\* unobservable when that object is no longer in the map), the has() test is by client id
wsOnClose(st, w) ==
  LET c == st.sockets[w].cid
      obj == st.sockets[w].obj
      s1 == IF IsCurrent(st, c, obj)
              THEN [st EXCEPT !.bridges[c].ws = NoWs, !.bridges[c].authenticated = FALSE]
              ELSE st
  IN IF c \in DOMAIN s1.bridges
       THEN LET s2 == [s1 EXCEPT !.timers = With(@, w, [cid |-> c, obj |-> obj, elapsed |-> 0])]
            IN IF IsCurrent(s2, c, obj)
                 THEN [s2 EXCEPT !.bridges[c].reconnectTimeout = w] ELSE s2
       ELSE s1

\* the setTimeout callback armed by the 'close' handler
reconnectTimerCallback(st, t) ==
  LET c == st.timers[t].cid
      s1 == [st EXCEPT !.timers = Without(@, t)]
  IN IF c \in DOMAIN s1.bridges THEN connectToGateway(s1, c) ELSE s1

RECURSIVE closeAll(_, _)
closeAll(st, ids) ==
  IF ids = {} THEN st
  ELSE LET c == CHOOSE x \in ids : TRUE
       IN closeAll(closeBridge(st, c), ids \ {c})

onModuleDestroy(st) == closeAll(st, DOMAIN st.bridges)

generateDeviceIdentity(key) ==
  [deviceId |-> "sha256:" \o key, publicKey |-> "pub:" \o key, privateKey |-> key]

\* ---------------------------------------------------------------- the state machine
NoArg == [none |-> TRUE]

Init ==
  /\ phase = "constructed"
  /\ deviceIdentity = NoIdentity
  /\ gatewayUrlOk \in BOOLEAN
  /\ bridges = <<>>
  /\ sockets = <<>>
  /\ timers = <<>>
  /\ nextWs = 1
  /\ nextObj = 1
  /\ hung = FALSE
  /\ authenticatedClients = {}
  /\ clients = <<>>
  /\ lastStep = [op |-> "init", cid |-> "", ws |-> NoWs, arg |-> NoArg,
                 wrote |-> <<>>, cbs |-> <<>>, threw |-> FALSE]

\* the handler's result becomes the next state
Commit(st, op, c, w, arg) ==
  /\ bridges' = st.bridges
  /\ sockets' = st.sockets
  /\ timers' = st.timers
  /\ nextWs' = st.nextWs
  /\ nextObj' = st.nextObj
  /\ hung' = st.hung
  /\ lastStep' = [op |-> op, cid |-> c, ws |-> w, arg |-> arg,
                  wrote |-> st.wrote, cbs |-> st.cbs, threw |-> st.threw]

Live == phase # "constructed" /\ ~hung

OnModuleInit ==
  /\ phase = "constructed"
  /\ \E key \in KeyMaterial : deviceIdentity' = generateDeviceIdentity(key)
  /\ phase' = "running"
  /\ lastStep' = [op |-> "onModuleInit", cid |-> "", ws |-> NoWs, arg |-> NoArg,
                  wrote |-> <<>>, cbs |-> <<>>, threw |-> FALSE]
  /\ UNCHANGED <<gatewayUrlOk, bridges, sockets, timers, nextWs, nextObj, hung,
                 authenticatedClients, clients>>

OnModuleDestroy ==
  /\ Live
  /\ Commit(onModuleDestroy(Store(<<>>)), "onModuleDestroy", "", NoWs, NoArg)
  /\ UNCHANGED <<phase, deviceIdentity, gatewayUrlOk, authenticatedClients, clients>>

CreateBridge(c) ==
  /\ Live
  /\ nextObj <= MaxBridges
  /\ nextWs <= MaxTransports
  /\ Commit(createBridge(Store(<<>>), c), "createBridge", c, NoWs,
            [existed |-> c \in DOMAIN bridges])
  /\ UNCHANGED <<phase, deviceIdentity, gatewayUrlOk, authenticatedClients, clients>>

CloseBridge(c) ==
  /\ Live
  /\ Commit(closeBridge(Store(<<>>), c), "closeBridge", c, NoWs,
            [existed |-> c \in DOMAIN bridges])
  /\ UNCHANGED <<phase, deviceIdentity, gatewayUrlOk, authenticatedClients, clients>>

SendMessage(c, message) ==
  /\ Live
  /\ \E u \in UuidSupplies :
       LET st == sendMessage(Store(u), c, message)
       IN /\ c \in DOMAIN bridges => Len(st.bridges[c].messageQueue) <= MaxQueue
          /\ Commit(st, "sendMessage", c, NoWs, message)
  /\ UNCHANGED <<phase, deviceIdentity, gatewayUrlOk, authenticatedClients, clients>>

\* the transport reports 'open'
TransportOpen(w) ==
  /\ Live
  /\ w \in DOMAIN sockets
  /\ sockets[w].readyState = "CONNECTING"
  /\ LET st == Store(<<>>)
         s1 == [st EXCEPT !.sockets[w].readyState = "OPEN", !.sockets[w].recv = TRUE]
     IN Commit(wsOnOpen(s1, w), "open", sockets[w].cid, w, NoArg)
  /\ UNCHANGED <<phase, deviceIdentity, gatewayUrlOk, authenticatedClients, clients>>

\* the transport delivers one inbound frame
TransportMessage(w, data) ==
  /\ Live
  /\ w \in DOMAIN sockets
  /\ sockets[w].recv
  /\ \E u \in UuidSupplies, now \in Timestamps :
       LET st == Store(u)
           s1 == IF IsHelloOk(data) THEN [st EXCEPT !.sockets[w].helloOk = TRUE] ELSE st
       IN Commit(wsOnMessage(s1, w, data, now), "message", sockets[w].cid, w, data)
  /\ UNCHANGED <<phase, deviceIdentity, gatewayUrlOk, authenticatedClients, clients>>

\* the transport delivers a connect.challenge and crypto's sign raises while it is handled
ChallengeSignFails(w) ==
  /\ Live
  /\ w \in DOMAIN sockets
  /\ sockets[w].recv
  /\ \E u \in UuidSupplies, now \in Timestamps :
       Commit(wsOnMessage([Store(u) EXCEPT !.signThrows = TRUE], w, ChallengeFrame, now),
              "challengeSignFails", sockets[w].cid, w, ChallengeFrame)
  /\ UNCHANGED <<phase, deviceIdentity, gatewayUrlOk, authenticatedClients, clients>>

\* sendMessage with any of the messages a caller can hand over and any request ids
SendAny(c, message) ==
  /\ Live
  /\ \E u \in TranslatorUuidSupplies :
       LET st == sendMessage(Store(u), c, message)
       IN /\ c \in DOMAIN bridges => Len(st.bridges[c].messageQueue) <= MaxQueue
          /\ Commit(st, "sendMessage", c, NoWs, message)
  /\ UNCHANGED <<phase, deviceIdentity, gatewayUrlOk, authenticatedClients, clients>>

\* the gateway starts the closing handshake: the socket is CLOSING until 'close' is emitted
PeerClose(w) ==
  /\ Live
  /\ w \in DOMAIN sockets
  /\ sockets[w].readyState = "OPEN"
  /\ LET st == Store(<<>>)
     IN Commit([st EXCEPT !.sockets[w].readyState = "CLOSING", !.sockets[w].recv = FALSE],
               "peerClose", sockets[w].cid, w, NoArg)
  /\ UNCHANGED <<phase, deviceIdentity, gatewayUrlOk, authenticatedClients, clients>>

\* the transport reports 'error' (connect refused, protocol error); the handler only logs
\* and the library emits 'close' afterwards
TransportError(w) ==
  /\ Live
  /\ w \in DOMAIN sockets
  /\ sockets[w].readyState \in {"CONNECTING", "OPEN"}
  /\ LET st == Store(<<>>)
     IN Commit([st EXCEPT !.sockets[w].readyState = "CLOSING", !.sockets[w].recv = FALSE],
               "error", sockets[w].cid, w, NoArg)
  /\ UNCHANGED <<phase, deviceIdentity, gatewayUrlOk, authenticatedClients, clients>>

\* the transport reports 'close'
TransportClose(w) ==
  /\ Live
  /\ w \in DOMAIN sockets
  /\ sockets[w].readyState \in {"OPEN", "CLOSING"}
  /\ LET s1 == wsOnClose(Store(<<>>), w)
     IN Commit([s1 EXCEPT !.sockets = Without(@, w)], "close", sockets[w].cid, w, NoArg)
  /\ UNCHANGED <<phase, deviceIdentity, gatewayUrlOk, authenticatedClients, clients>>

\* time passes for every pending timer
Tick ==
  /\ Live
  /\ \E t \in DOMAIN timers : timers[t].elapsed < ReconnectDelay
  /\ timers' = [t \in DOMAIN timers |->
                  [timers[t] EXCEPT !.elapsed = Min(@ + TickMs, ReconnectDelay)]]
  /\ lastStep' = [op |-> "tick", cid |-> "", ws |-> NoWs, arg |-> NoArg,
                  wrote |-> <<>>, cbs |-> <<>>, threw |-> FALSE]
  /\ UNCHANGED <<phase, deviceIdentity, gatewayUrlOk, bridges, sockets, nextWs, nextObj,
                 hung, authenticatedClients, clients>>

\* a reconnect timer expires and its callback runs
ReconnectTimerFire(t) ==
  /\ Live
  /\ t \in DOMAIN timers
  /\ timers[t].elapsed >= ReconnectDelay
  /\ nextWs <= MaxTransports
  /\ Commit(reconnectTimerCallback(Store(<<>>), t), "timer", timers[t].cid, t,
            [elapsed |-> timers[t].elapsed, obj |-> timers[t].obj])
  /\ UNCHANGED <<phase, deviceIdentity, gatewayUrlOk, authenticatedClients, clients>>

Next ==
  \/ OnModuleInit
  \/ OnModuleDestroy
  \/ \E c \in Clients : CreateBridge(c)
  \/ \E c \in Clients : CloseBridge(c)
  \/ \E c \in Clients, message \in ClientMsgShapes : SendMessage(c, message)
  \/ \E w \in 1..MaxTransports : TransportOpen(w)
  \/ \E w \in 1..MaxTransports, data \in InboundFrames \cup {Malformed} : TransportMessage(w, data)
  \/ \E w \in 1..MaxTransports : PeerClose(w)
  \/ \E w \in 1..MaxTransports : TransportError(w)
  \/ \E w \in 1..MaxTransports : TransportClose(w)
  \/ Tick
  \/ \E t \in 1..MaxTransports : ReconnectTimerFire(t)

Spec == Init /\ [][Next]_vars

\* The same steps under the scheduling the runtime guarantees: time passes, an expired
\* timer's callback runs, and a transport that is closing emits 'close'.
ClosingEmitsClose(w) ==
  /\ w \in DOMAIN sockets
  /\ sockets[w].readyState = "CLOSING"
  /\ TransportClose(w)

LiveSpec ==
  /\ Init
  /\ [][Next]_vars
  /\ WF_vars(Tick)
  /\ \A t \in 1..MaxTransports : WF_vars(ReconnectTimerFire(t))
  /\ \A w \in 1..MaxTransports : WF_vars(ClosingEmitsClose(w))

\* The handshake of a service in use with or without a device identity (deviceIdentity is
\* null until onModuleInit has run) and with a signing primitive that can fail.
HandshakeInit ==
  /\ phase = "running"
  /\ deviceIdentity \in {NoIdentity} \cup {generateDeviceIdentity(key) : key \in KeyMaterial}
  /\ gatewayUrlOk = TRUE
  /\ bridges = <<>>
  /\ sockets = <<>>
  /\ timers = <<>>
  /\ nextWs = 1
  /\ nextObj = 1
  /\ hung = FALSE
  /\ authenticatedClients = {}
  /\ clients = <<>>
  /\ lastStep = [op |-> "init", cid |-> "", ws |-> NoWs, arg |-> NoArg,
                 wrote |-> <<>>, cbs |-> <<>>, threw |-> FALSE]

HandshakeNext ==
  \/ \E c \in Clients : CreateBridge(c)
  \/ \E c \in Clients, message \in ClientMsgShapes : SendMessage(c, message)
  \/ \E w \in 1..MaxTransports : TransportOpen(w)
  \/ \E w \in 1..MaxTransports, data \in {ChallengeFrame, HelloOkFrame} : TransportMessage(w, data)
  \/ \E w \in 1..MaxTransports : ChallengeSignFails(w)
  \/ \E w \in 1..MaxTransports : TransportClose(w)

HandshakeSpec == HandshakeInit /\ [][HandshakeNext]_vars

\* ---------------------------------------------------------------- ChatGateway
\* what the handshake of a connecting client carries as its token (chat.gateway.ts 45-48)
Tokens == {"none", "invalid", "valid"}

\* AuthService.validateToken
validateToken(token) == token = "valid"

\* handleConnection up to its await: without a token the client is refused at once, with
\* one the handler is suspended until validateToken's promise settles
HandleConnection(c, token) ==
  /\ Live
  /\ c \notin DOMAIN clients
  /\ clients' = clients @@ (c :>
       IF token = "none"
         THEN [token |-> token, connected |-> FALSE, handleConnection |-> "returned",
               handleDisconnect |-> FALSE, emitted |-> {"error"}]
         ELSE [token |-> token, connected |-> TRUE, handleConnection |-> "suspended",
               handleDisconnect |-> FALSE, emitted |-> {}])
  /\ Commit(Store(<<>>), "handleConnection", c, NoWs, [token |-> token])
  /\ UNCHANGED <<phase, deviceIdentity, gatewayUrlOk, authenticatedClients>>

\* handleConnection from the await to its end; nothing in it looks at client.connected
HandleConnectionResumes(c) ==
  /\ Live
  /\ c \in DOMAIN clients
  /\ clients[c].handleConnection = "suspended"
  /\ IF ~validateToken(clients[c].token)
       THEN /\ clients' = [clients EXCEPT ![c].handleConnection = "returned",
                                          ![c].connected = FALSE,
                                          ![c].emitted = @ \cup {"error"}]
            /\ Commit(Store(<<>>), "handleConnectionResumes", c, NoWs, NoArg)
            /\ UNCHANGED authenticatedClients
       ELSE /\ nextObj <= MaxBridges
            /\ nextWs <= MaxTransports
            /\ authenticatedClients' = authenticatedClients \cup {c}
            /\ clients' = [clients EXCEPT ![c].handleConnection = "returned",
                                          ![c].emitted = @ \cup {"connected"}]
            /\ Commit(createBridge(Store(<<>>), c), "handleConnectionResumes", c, NoWs, NoArg)
  /\ UNCHANGED <<phase, deviceIdentity, gatewayUrlOk>>

\* the client's 'disconnect' event, once per client: handleDisconnect
HandleDisconnect(c) ==
  /\ Live
  /\ c \in DOMAIN clients
  /\ ~clients[c].handleDisconnect
  /\ authenticatedClients' = authenticatedClients \ {c}
  /\ clients' = [clients EXCEPT ![c].connected = FALSE, ![c].handleDisconnect = TRUE]
  /\ Commit(closeBridge(Store(<<>>), c), "handleDisconnect", c, NoWs, NoArg)
  /\ UNCHANGED <<phase, deviceIdentity, gatewayUrlOk>>

\* what a client sends with its 'message' event, already trimmed, and with 'history'
MessageTexts == {"hi", ""}

HistoryPayloads == {[limit |-> 10], [limit |-> 0], Undefined}

GatewayHistoryLimit == 50

\* @SubscribeMessage('message')
HandleMessage(c, text) ==
  /\ Live
  /\ c \in DOMAIN clients
  /\ clients[c].connected
  /\ IF c \notin authenticatedClients
       THEN /\ clients' = [clients EXCEPT ![c].emitted = @ \cup {"error"}]
            /\ Commit(Store(<<>>), "handleMessage", c, NoWs, [text |-> text])
       ELSE IF text = ""
         THEN /\ UNCHANGED clients
              /\ Commit(Store(<<>>), "handleMessage", c, NoWs, [text |-> text])
       ELSE \E u \in UuidSupplies :
              LET st == sendMessage(Store(u), c, [type |-> "message", text |-> text])
              IN /\ c \in DOMAIN bridges => Len(st.bridges[c].messageQueue) <= MaxQueue
                 /\ clients' = [clients EXCEPT ![c].emitted = @ \cup {"typing"}]
                 /\ Commit(st, "handleMessage", c, NoWs, [text |-> text])
  /\ UNCHANGED <<phase, deviceIdentity, gatewayUrlOk, authenticatedClients>>

\* @SubscribeMessage('history')
HandleHistory(c, payload) ==
  /\ Live
  /\ c \in DOMAIN clients
  /\ clients[c].connected
  /\ IF c \notin authenticatedClients
       THEN /\ clients' = [clients EXCEPT ![c].emitted = @ \cup {"error"}]
            /\ Commit(Store(<<>>), "handleHistory", c, NoWs, payload)
       ELSE \E u \in UuidSupplies :
              LET limit == IF Has(payload, "limit") /\ payload.limit # 0
                             THEN payload.limit ELSE GatewayHistoryLimit
                  st == sendMessage(Store(u), c, [type |-> "history", limit |-> limit])
              IN /\ c \in DOMAIN bridges => Len(st.bridges[c].messageQueue) <= MaxQueue
                 /\ UNCHANGED clients
                 /\ Commit(st, "handleHistory", c, NoWs, payload)
  /\ UNCHANGED <<phase, deviceIdentity, gatewayUrlOk, authenticatedClients>>

\* @SubscribeMessage('typing')
HandleTyping(c) ==
  /\ Live
  /\ c \in DOMAIN clients
  /\ clients[c].connected
  /\ c \in authenticatedClients
  /\ \E u \in UuidSupplies :
       LET st == sendMessage(Store(u), c, [type |-> "user_typing"])
       IN /\ c \in DOMAIN bridges => Len(st.bridges[c].messageQueue) <= MaxQueue
          /\ Commit(st, "handleTyping", c, NoWs, NoArg)
  /\ UNCHANGED <<phase, deviceIdentity, gatewayUrlOk, authenticatedClients, clients>>

\* The client-facing gateway in front of the bridge service: clients connect and go away
\* while their gateway transports open, authenticate, fail and reconnect.
GatewayNext ==
  \/ OnModuleInit
  \/ \E c \in Clients, token \in Tokens : HandleConnection(c, token)
  \/ \E c \in Clients : HandleConnectionResumes(c)
  \/ \E c \in Clients : HandleDisconnect(c)
  \/ \E c \in Clients, text \in MessageTexts : HandleMessage(c, text)
  \/ \E c \in Clients, payload \in HistoryPayloads : HandleHistory(c, payload)
  \/ \E c \in Clients : HandleTyping(c)
  \/ \E w \in 1..MaxTransports : TransportOpen(w)
  \/ \E w \in 1..MaxTransports, data \in {ChallengeFrame, HelloOkFrame} : TransportMessage(w, data)
  \/ \E w \in 1..MaxTransports : TransportError(w)
  \/ \E w \in 1..MaxTransports : TransportClose(w)
  \/ Tick
  \/ \E t \in 1..MaxTransports : ReconnectTimerFire(t)

GatewaySpec == Init /\ [][GatewayNext]_vars

\* A session that is opened, authenticated and sent every kind of client message.
TranslatorNext ==
  \/ OnModuleInit
  \/ \E c \in Clients : CreateBridge(c)
  \/ \E c \in Clients, message \in TranslatorInputs : SendAny(c, message)
  \/ \E w \in 1..MaxTransports : TransportOpen(w)
  \/ \E w \in 1..MaxTransports : TransportMessage(w, HelloOkFrame)

TranslatorSpec == Init /\ [][TranslatorNext]_vars

\* The service under every kind of frame the gateway can deliver, with sessions created,
\* replaced and closed but no reconnect timer running.
FrameNext ==
  \/ OnModuleInit
  \/ \E c \in Clients : CreateBridge(c)
  \/ \E c \in Clients : CloseBridge(c)
  \/ \E c \in Clients, message \in ClientMsgShapes : SendMessage(c, message)
  \/ \E w \in 1..MaxTransports : TransportOpen(w)
  \/ \E w \in 1..MaxTransports, data \in GatewayFrames \cup {Malformed} : TransportMessage(w, data)
  \/ \E w \in 1..MaxTransports : PeerClose(w)

FrameSpec == Init /\ [][FrameNext]_vars

\* Two frontend sessions side by side. The session of c1 goes through every event, its
\* replacement and its reconnects included; the session of c2 is created once and then
\* sends, opens and receives while the events of c1 happen around it.
IsoClients == {"c1", "c2"}

IsoMsgShapes == {[type |-> "message", text |-> "hi"]}

IsoFrames == {HelloOkFrame, FailFrame, ChatFrame}

SocketsOf(c) == {w \in DOMAIN sockets : sockets[w].cid = c}

IsoNext ==
  \/ OnModuleInit
  \/ CreateBridge("c1")
  \/ "c2" \notin DOMAIN bridges /\ CreateBridge("c2")
  \/ CloseBridge("c1")
  \/ \E c \in IsoClients, message \in IsoMsgShapes : SendMessage(c, message)
  \/ \E w \in 1..MaxTransports : TransportOpen(w)
  \/ \E w \in 1..MaxTransports, data \in IsoFrames : TransportMessage(w, data)
  \/ \E w \in SocketsOf("c1") : TransportError(w)
  \/ \E w \in SocketsOf("c1") : TransportClose(w)
  \/ Tick
  \/ \E t \in 1..MaxTransports : ReconnectTimerFire(t)

IsoSpec == Init /\ [][IsoNext]_vars

TypeOK ==
  /\ phase \in {"constructed", "running"}
  /\ DOMAIN bridges \subseteq Clients
  /\ DOMAIN sockets \subseteq 1..MaxTransports
  /\ DOMAIN timers \subseteq 1..MaxTransports

\* ---------------------------------------------------------------- properties
\* readyState of a transport in the current state
SockState(w) == IF w \in DOMAIN sockets THEN sockets[w].readyState ELSE "CLOSED"

\* the transports opened on behalf of client c that are CONNECTING, OPEN or CLOSING
LiveTransports(c) == {w \in DOMAIN sockets : sockets[w].cid = c}

\* a transport whose handlers captured a bridge object that is no longer the one in the map
StaleSocket(w) ==
  /\ w \in DOMAIN sockets
  /\ sockets[w].cid \in DOMAIN bridges
  /\ sockets[w].obj # bridges[sockets[w].cid].obj

StaleTimer(t) ==
  /\ t \in DOMAIN timers
  /\ timers[t].cid \in DOMAIN bridges
  /\ timers[t].obj # bridges[timers[t].cid].obj

\* what a client message looks like once translated for the gateway
IsTranslationOf(data, message) ==
  IF message.type = "message"
    THEN Has(data, "method") /\ data.method = "agent" /\ data.params.message = message.text
  ELSE IF message.type = "history"
    THEN Has(data, "method") /\ data.method = "sessions.history"
  ELSE data = message

IsPrefix(s, t) == Len(s) <= Len(t) /\ \A i \in 1..Len(s) : s[i] = t[i]

\* a step in which the transport delivered a hello-ok response for client c
HelloOkStep(c) ==
  lastStep'.op = "message" /\ lastStep'.cid = c /\ lastStep'.arg = HelloOkFrame

\* the frames written in the step are the translations of the messages of q, in order
WroteQueue(q) ==
  /\ Len(lastStep'.wrote) = Len(q)
  /\ \A i \in 1..Len(q) : IsTranslationOf(lastStep'.wrote[i].data, q[i])

\* C1: every client id that has a bridge has at most one live transport (CONNECTING, OPEN
\* or CLOSING) opened on its behalf, in every reachable state.
C1_AtMostOneLiveTransport ==
  \A c \in DOMAIN bridges : Cardinality(LiveTransports(c)) <= 1

\* C2: once closeBridge has removed the bridge of a client id and no createBridge has
\* followed, no reconnect timer fires for that id and no onMessage callback of that id
\* is invoked, whatever transport events are still pending.
C2_NothingAfterFinalClose ==
  [][\A c \in Clients : c \notin DOMAIN bridges =>
       /\ ~(lastStep'.op = "timer" /\ lastStep'.cid = c)
       /\ \A i \in 1..Len(lastStep'.cbs) : lastStep'.cbs[i].cid # c]_vars

\* C3: after closeBridge(c) and createBridge(c, cb2), a reconnect timer armed by the prior
\* session's transport opens no transport, and a frame delivered by the prior session's
\* transport invokes no callback and leaves the new session's state unchanged.
C3_PriorSessionIgnored ==
  [][/\ (lastStep'.op = "timer" /\ StaleTimer(lastStep'.ws))
          => (sockets' = sockets /\ nextWs' = nextWs)
     /\ (lastStep'.op = "message" /\ StaleSocket(lastStep'.ws))
          => (lastStep'.cbs = <<>> /\ bridges' = bridges)]_vars

\* C4: a message queued for a bridge stays queued, in its place, until the handshake
\* succeeds, and the step that handles the success response writes every queued message
\* to the gateway exactly once, in queue order, and leaves the queue empty.
C4_PreAuthDeliveredInOrder ==
  [][\A c \in DOMAIN bridges :
       (c \in DOMAIN bridges' /\ bridges'[c].obj = bridges[c].obj) =>
         IF HelloOkStep(c)
           THEN /\ ~hung'
                /\ WroteQueue(bridges[c].messageQueue)
                /\ bridges'[c].messageQueue = <<>>
           ELSE IsPrefix(bridges[c].messageQueue, bridges'[c].messageQueue)]_vars

\* C5: within one session the client messages are written to the gateway in the order of
\* their submission: sendMessage writes a message only when no earlier message is still
\* queued, and the queue is written in queue order.
C5_SubmissionOrderKept ==
  [][\A c \in DOMAIN bridges :
       /\ (lastStep'.op = "sendMessage" /\ lastStep'.cid = c /\ lastStep'.wrote # <<>>)
            => bridges[c].messageQueue = <<>>
       /\ (HelloOkStep(c) /\ ~hung')
            => WroteQueue(bridges[c].messageQueue)]_vars

\* C6: sendMessage on an existing bridge appends the message at the tail of the queue when
\* the bridge is not authenticated or its transport is absent or not OPEN, and only
\* otherwise translates it and writes it to the transport; the message is never lost.
C6_SendQueuesOrWrites ==
  [][\A c \in DOMAIN bridges :
       (lastStep'.op = "sendMessage" /\ lastStep'.cid = c) =>
         LET bridge == bridges[c]
             message == lastStep'.arg
         IN /\ c \in DOMAIN bridges'
            /\ IF ~bridge.authenticated \/ bridge.ws = NoWs \/ SockState(bridge.ws) # "OPEN"
                 THEN /\ bridges'[c].messageQueue = Append(bridge.messageQueue, message)
                      /\ lastStep'.wrote = <<>>
                 ELSE /\ bridges'[c].messageQueue = bridge.messageQueue
                      /\ Len(lastStep'.wrote) = 1
                      /\ lastStep'.wrote[1].ws = bridge.ws
                      /\ IsTranslationOf(lastStep'.wrote[1].data, message)]_vars

\* a message was queued by sendMessage while the bridge was authenticated and its
\* transport was closing
C6_Witness ==
  /\ lastStep.op = "sendMessage"
  /\ lastStep.cid \in DOMAIN bridges
  /\ bridges[lastStep.cid].authenticated
  /\ bridges[lastStep.cid].ws # NoWs
  /\ SockState(bridges[lastStep.cid].ws) = "CLOSING"
  /\ bridges[lastStep.cid].messageQueue # <<>>
  /\ bridges[lastStep.cid].messageQueue[Len(bridges[lastStep.cid].messageQueue)] = lastStep.arg

\* C7: a transport close while its bridge exists arms exactly one reconnect timer; the
\* timer's callback runs no earlier than 5000 ms later and opens at most one transport;
\* closeBridge cancels every timer armed for the bridge it closes, and a timer opens no
\* transport for a client whose bridge is closed.
C7_OneReconnectCancelledOnClose ==
  [][/\ \A w \in DOMAIN sockets :
          (lastStep'.op = "close" /\ lastStep'.ws = w /\ IsCurrent(Store(<<>>), sockets[w].cid, sockets[w].obj))
            => /\ DOMAIN timers' = DOMAIN timers \cup {w}
               /\ w \notin DOMAIN timers
               /\ timers'[w].elapsed = 0
     /\ lastStep'.op = "timer"
          => /\ lastStep'.arg.elapsed >= ReconnectDelay
             /\ Cardinality(DOMAIN sockets' \ DOMAIN sockets) <= 1
             /\ (lastStep'.cid \notin DOMAIN bridges => sockets' = sockets)
     /\ \A c \in DOMAIN bridges :
          (lastStep'.op = "closeBridge" /\ lastStep'.cid = c)
            => \A t \in DOMAIN timers' :
                 ~(timers'[t].cid = c /\ timers'[t].obj = bridges[c].obj)]_vars

IsChallenge(message) ==
  /\ Has(message, "type") /\ message.type = "event"
  /\ Has(message, "event") /\ message.event = "connect.challenge"
  /\ Has(message, "payload") /\ Has(message.payload, "nonce")

\* C10: a connect.challenge delivered for a session whose transport is OPEN, the device
\* identity existing, makes the bridge write exactly one req frame with method connect to
\* that transport, with device.id the process device id, a non-empty device.signature and
\* the challenge's nonce; nothing is delivered to the client callback.
C10_ChallengeAnswered ==
  [][\A c \in DOMAIN bridges :
       (/\ lastStep'.op = "message" /\ lastStep'.cid = c /\ IsChallenge(lastStep'.arg)
        /\ bridges[c].ws # NoWs /\ SockState(bridges[c].ws) = "OPEN"
        /\ deviceIdentity # NoIdentity)
         => /\ Len(lastStep'.wrote) = 1
            /\ lastStep'.wrote[1].ws = bridges[c].ws
            /\ lastStep'.wrote[1].data.type = "req"
            /\ lastStep'.wrote[1].data.method = "connect"
            /\ lastStep'.wrote[1].data.params.device.id = deviceIdentity.deviceId
            /\ deviceIdentity.deviceId # ""
            /\ Len(lastStep'.wrote[1].data.params.device.signature) > 0
            /\ lastStep'.wrote[1].data.params.device.nonce = lastStep'.arg.payload.nonce
            /\ lastStep'.cbs = <<>>]_vars

\* a challenge was delivered on the open transport of the session and answered
C10_Witness ==
  /\ lastStep.op = "message"
  /\ IsChallenge(lastStep.arg)
  /\ lastStep.cid \in DOMAIN bridges
  /\ bridges[lastStep.cid].ws = lastStep.ws
  /\ SockState(lastStep.ws) = "OPEN"
  /\ Len(lastStep.wrote) = 1

HistoryMessage == [type |-> "history", limit |-> 10]

IsConnectedNote(note) == Has(note, "type") /\ note.type = "gateway_connected"

\* the step handled a hello-ok for the bridge of c, which was unauthenticated and had
\* exactly the history message in its queue
HistoryQueuedThenHelloOk(c) ==
  /\ HelloOkStep(c)
  /\ c \in DOMAIN bridges /\ c \in DOMAIN bridges'
  /\ ~bridges[c].authenticated
  /\ bridges[c].messageQueue = <<HistoryMessage>>

\* the step wrote exactly one sessions.history request with limit 10
WroteOneHistoryReq ==
  /\ Len(lastStep'.wrote) = 1
  /\ lastStep'.wrote[1].data.type = "req"
  /\ lastStep'.wrote[1].data.method = "sessions.history"
  /\ lastStep'.wrote[1].data.params.limit = 10

IsFailure(message) ==
  /\ Has(message, "type") /\ message.type = "res"
  /\ ~(Has(message, "ok") /\ message.ok = TRUE)

\* C12: a res frame with ok = false delivered for a session makes the bridge invoke the
\* session's callback exactly once, with {type: error, error: the frame's error}, and
\* changes nothing else: authenticated, the queue, the transports, the timers and the map
\* are as before and nothing is written.
C12_FailureForwardedOnly ==
  [][\A c \in DOMAIN bridges :
       (lastStep'.op = "message" /\ lastStep'.cid = c /\ IsFailure(lastStep'.arg)) =>
         /\ Len(lastStep'.cbs) = 1
         /\ lastStep'.cbs[1].cb = bridges[c].obj
         /\ lastStep'.cbs[1].note.type = "error"
         /\ Has(lastStep'.arg, "error") =>
              lastStep'.cbs[1].note = [type |-> "error", error |-> lastStep'.arg.error]
         /\ lastStep'.wrote = <<>>
         /\ bridges' = bridges
         /\ sockets' = sockets
         /\ timers' = timers
         /\ ~hung']_vars

\* a failure response was handled for an authenticated session and its callback got the
\* error notification
C12_Witness ==
  /\ lastStep.op = "message"
  /\ lastStep.arg = FailFrame
  /\ lastStep.cid \in DOMAIN bridges
  /\ bridges[lastStep.cid].authenticated
  /\ bridges[lastStep.cid].ws = lastStep.ws
  /\ Len(lastStep.cbs) = 1
  /\ lastStep.cbs[1].note = [type |-> "error", error |-> FailFrame.error]

IsIgnoredEvent(message) ==
  /\ Has(message, "type") /\ message.type = "event"
  /\ Has(message, "event") /\ message.event \in IgnoredEvents

\* C13: an inbound event frame named tick, health, presence, heartbeat or shutdown
\* invokes no callback, writes nothing and changes no session state.
C13_IgnoredEventsDropped ==
  [][(lastStep'.op = "message" /\ IsIgnoredEvent(lastStep'.arg)) =>
       /\ lastStep'.cbs = <<>>
       /\ lastStep'.wrote = <<>>
       /\ bridges' = bridges
       /\ sockets' = sockets
       /\ timers' = timers
       /\ ~hung']_vars

\* a tick event was delivered on the open transport of an authenticated session
C13_Witness ==
  /\ lastStep.op = "message"
  /\ lastStep.arg = [type |-> "event", event |-> "tick"]
  /\ lastStep.cid \in DOMAIN bridges
  /\ bridges[lastStep.cid].ws = lastStep.ws
  /\ bridges[lastStep.cid].authenticated
  /\ lastStep.cbs = <<>>

IsAgentEvent(message) ==
  /\ Has(message, "type") /\ message.type = "event"
  /\ Has(message, "event") /\ message.event = "agent"
  /\ Has(message, "payload")

HasTextDelta(p) == Has(p, "delta") /\ Has(p.delta, "text") /\ p.delta.text # ""

IsCompleted(p) == Has(p, "status") /\ p.status \in {"completed", "done"}

\* the callbacks of the step that delivered exactly the note
NotesEqual(note) == {i \in 1..Len(lastStep'.cbs) : lastStep'.cbs[i].note = note}

\* the callbacks of the step that delivered a note of the type
NotesOfType(type) ==
  {i \in 1..Len(lastStep'.cbs) :
     Has(lastStep'.cbs[i].note, "type") /\ lastStep'.cbs[i].note.type = type}

\* C14: for every agent event payload delivered for a session: a text delta yields
\* exactly one {type: response, content, streaming: true, runId} with the payload's runId;
\* a status of completed or done yields exactly one {type: response_complete, runId}; any
\* other payload yields no callback.
C14_AgentEventsTranslated ==
  [][\A c \in DOMAIN bridges :
       (lastStep'.op = "message" /\ lastStep'.cid = c /\ IsAgentEvent(lastStep'.arg)) =>
         LET p == lastStep'.arg.payload
         IN /\ HasTextDelta(p) =>
                 /\ Cardinality(NotesOfType("response")) = 1
                 /\ Cardinality(NotesEqual([type |-> "response", content |-> p.delta.text,
                                            streaming |-> TRUE, runId |-> p.runId])) = 1
            /\ IsCompleted(p) =>
                 /\ Cardinality(NotesOfType("response_complete")) = 1
                 /\ Cardinality(NotesEqual([type |-> "response_complete",
                                            runId |-> p.runId])) = 1
            /\ (~HasTextDelta(p) /\ ~IsCompleted(p)) => lastStep'.cbs = <<>>]_vars

\* C15: sendMessage for a client id that has no bridge creates no entry, queues nothing,
\* writes nothing to any transport and invokes no callback.
C15_SendWithoutBridgeNoOp ==
  [][\A c \in Clients :
       (lastStep'.op = "sendMessage" /\ lastStep'.cid = c /\ c \notin DOMAIN bridges) =>
         /\ bridges' = bridges
         /\ sockets' = sockets
         /\ timers' = timers
         /\ nextWs' = nextWs
         /\ nextObj' = nextObj
         /\ lastStep'.wrote = <<>>
         /\ lastStep'.cbs = <<>>]_vars

\* sendMessage was called for a client id whose bridge had been closed while the
\* transport of that bridge was still closing
C15_Witness ==
  /\ lastStep.op = "sendMessage"
  /\ lastStep.cid \notin DOMAIN bridges
  /\ \E w \in DOMAIN sockets : sockets[w].cid = lastStep.cid /\ sockets[w].recv

\* everything the service holds for client id c: its bridge entry, the transports opened
\* on its behalf and the reconnect timers armed for it
SessionView(c) ==
  [bridge |-> IF c \in DOMAIN bridges THEN bridges[c] ELSE Undefined,
   sockets |-> [w \in {x \in DOMAIN sockets : sockets[x].cid = c} |-> sockets[w]],
   timers |-> {t \in DOMAIN timers : timers[t].cid = c}]

SessionOps ==
  {"createBridge", "closeBridge", "sendMessage", "open", "message", "peerClose", "error",
   "close", "timer"}

\* C16: an event of one session (its createBridge, closeBridge or sendMessage, its
\* transport's open, message, error or close, its reconnect timer) leaves the bridge entry,
\* the transports and the timers of every other client id unchanged, writes nothing to a
\* transport of another client id and invokes no callback of another client id.
C16_SessionsIsolated ==
  [][\A c, d \in IsoClients :
       (c # d /\ lastStep'.cid = d /\ lastStep'.op \in SessionOps) =>
         /\ SessionView(c)' = SessionView(c)
         /\ \A i \in 1..Len(lastStep'.cbs) : lastStep'.cbs[i].cid # c
         /\ \A i \in 1..Len(lastStep'.wrote) :
              sockets[lastStep'.wrote[i].ws].cid # c]_vars

\* the reconnect timer of one session has just opened a new transport while the other
\* session is authenticated on its own open transport
C16_Witness ==
  /\ lastStep.op = "timer"
  /\ lastStep.cid \in DOMAIN bridges
  /\ bridges[lastStep.cid].ws # NoWs
  /\ \E c \in DOMAIN bridges :
       /\ c # lastStep.cid
       /\ bridges[c].authenticated
       /\ bridges[c].ws # NoWs
       /\ SockState(bridges[c].ws) = "OPEN"

\* C17: in every reachable state a bridge is authenticated only if it has a current
\* transport, that transport is live, and the gateway's success response arrived on that
\* same transport.
C17_AuthenticatedOnlyOnOwnTransport ==
  \A c \in DOMAIN bridges :
    bridges[c].authenticated =>
      /\ bridges[c].ws # NoWs
      /\ bridges[c].ws \in DOMAIN sockets
      /\ sockets[bridges[c].ws].helloOk

IsConnectReq(data) == Has(data, "type") /\ data.type = "req" /\ Has(data, "method") /\ data.method = "connect"

\* C18: every frame the bridge writes to a transport on which the gateway's success
\* response has not arrived is the connect request: no translated client message is
\* written to a transport before the handshake has completed on it.
C18_NoClientFrameBeforeHandshake ==
  [][\A i \in 1..Len(lastStep'.wrote) :
       LET w == lastStep'.wrote[i].ws
       IN \/ IsConnectReq(lastStep'.wrote[i].data)
          \/ (w \in DOMAIN sockets' /\ sockets'[w].helloOk)]_vars

\* C19: the step that handles a successful handshake response for a bridge sets
\* authenticated, writes the whole queue in FIFO order, each message translated as a live
\* send translates it, and then delivers exactly one gateway_connected notification, after
\* the last write and with the queue empty.
C19_SuccessOrder ==
  [][\A c \in DOMAIN bridges :
       (HelloOkStep(c) /\ c \in DOMAIN bridges' /\ bridges'[c].obj = bridges[c].obj) =>
         /\ bridges'[c].authenticated
         /\ WroteQueue(bridges[c].messageQueue)
         /\ bridges'[c].messageQueue = <<>>
         /\ Len(lastStep'.cbs) = 1
         /\ IsConnectedNote(lastStep'.cbs[1].note)
         /\ lastStep'.cbs[1].after = Len(bridges[c].messageQueue)]_vars

\* C20: the drain loop of handleConnectSuccess ends after finitely many iterations in
\* every reachable state in which it runs: no handler spins forever.
C20_DrainTerminates == ~hung

\* C14 amended: a payload with a text delta yields exactly one callback, the response
\* with the delta text and the payload's runId; a payload without a text delta whose
\* status is completed or done yields exactly one callback, the response_complete with
\* the runId; any other payload yields none.
C14_AgentEventsFirstMatch ==
  [][\A c \in DOMAIN bridges :
       (lastStep'.op = "message" /\ lastStep'.cid = c /\ IsAgentEvent(lastStep'.arg)) =>
         LET p == lastStep'.arg.payload
         IN IF HasTextDelta(p)
              THEN /\ Len(lastStep'.cbs) = 1
                   /\ lastStep'.cbs[1].note = [type |-> "response", content |-> p.delta.text,
                                               streaming |-> TRUE, runId |-> p.runId]
            ELSE IF IsCompleted(p)
              THEN /\ Len(lastStep'.cbs) = 1
                   /\ lastStep'.cbs[1].note = [type |-> "response_complete", runId |-> p.runId]
            ELSE lastStep'.cbs = <<>>]_vars

\* an agent event carrying a text delta and the status done was delivered for a session
\* and its callback received the streaming response alone
C14_Witness ==
  /\ lastStep.op = "message"
  /\ IsAgentEvent(lastStep.arg)
  /\ HasTextDelta(lastStep.arg.payload)
  /\ IsCompleted(lastStep.arg.payload)
  /\ lastStep.cid \in DOMAIN bridges
  /\ Len(lastStep.cbs) = 1
  /\ lastStep.cbs[1].note.type = "response"

IsChatEvent(message) ==
  /\ Has(message, "type") /\ message.type = "event"
  /\ Has(message, "event") /\ message.event = "chat"

\* C21: a frame delivered for a session invokes the callback at most once, and when it
\* does the frame is a failed res (error notification), an agent event with a text delta
\* or a completed/done status (response, response_complete), a chat event (its payload),
\* any other res that is not the handshake's success (the frame itself), or the
\* handshake's success, which yields the gateway_connected notification and never the
\* frame; an event of any other name invokes nothing.
C21_ForwardedOnlyWhenRecognised ==
  [][\A c \in DOMAIN bridges :
       (lastStep'.op = "message" /\ lastStep'.cid = c) =>
         LET m == lastStep'.arg
             cbs == lastStep'.cbs
         IN /\ Len(cbs) <= 1
            /\ Len(cbs) = 1 =>
                 \/ IsFailure(m) /\ cbs[1].note.type = "error"
                 \/ /\ IsAgentEvent(m)
                    /\ HasTextDelta(m.payload) \/ IsCompleted(m.payload)
                    /\ cbs[1].note.type \in {"response", "response_complete"}
                 \/ IsChatEvent(m) /\ cbs[1].note = Payload(m)
                 \/ /\ Has(m, "type") /\ m.type = "res"
                    /\ ~IsFailure(m) /\ ~IsHelloOk(m)
                    /\ cbs[1].note = m
                 \/ IsHelloOk(m) /\ IsConnectedNote(cbs[1].note)
            /\ IsHelloOk(m) => \A i \in 1..Len(cbs) : cbs[i].note # m
            /\ (Has(m, "type") /\ m.type = "event" /\ ~IsAgentEvent(m) /\ ~IsChatEvent(m))
                 => cbs = <<>>]_vars

\* a res frame that is neither a failure nor the handshake's success was delivered on the
\* transport of an authenticated session and forwarded as it is
C21_Witness ==
  /\ lastStep.op = "message"
  /\ lastStep.arg = OtherResFrame
  /\ lastStep.cid \in DOMAIN bridges
  /\ bridges[lastStep.cid].authenticated
  /\ Len(lastStep.cbs) = 1
  /\ lastStep.cbs[1].note = OtherResFrame

\* the bridge of c has no transport that is connecting or open: its last connection
\* attempt failed, or its connection ended
NeedsReconnect(c) ==
  /\ c \in DOMAIN bridges
  /\ bridges[c].ws = NoWs \/ SockState(bridges[c].ws) \in {"CLOSING", "CLOSED"}

\* a connection attempt is under way or has succeeded for the bridge of c
HasAttempt(c) ==
  /\ c \in DOMAIN bridges
  /\ bridges[c].ws # NoWs
  /\ SockState(bridges[c].ws) \in {"CONNECTING", "OPEN"}

\* the model's supply of transport numbers is used up, or the process spins in a handler
NoFurtherStep == nextWs > MaxTransports \/ hung

\* C22: while a bridge exists, every failed or ended connection attempt (transport error,
\* transport close, failure to create the transport) is eventually followed by a new
\* connection attempt for the bridge, and none of these failures invokes the callback.
C22_FailedAttemptRetried ==
  /\ \A c \in Clients :
       NeedsReconnect(c) ~> (HasAttempt(c) \/ c \notin DOMAIN bridges \/ NoFurtherStep)
  /\ [][lastStep'.op \in {"createBridge", "error", "peerClose", "close", "timer"}
          => lastStep'.cbs = <<>>]_vars

\* C23: after closeBridge(c) no transport opened for the closed bridge is still connecting
\* or open, and no reconnect timer armed by one of its transports is still pending.
C23_CloseReleasesEverything ==
  [][\A c \in DOMAIN bridges :
       (lastStep'.op = "closeBridge" /\ lastStep'.cid = c) =>
         /\ \A w \in DOMAIN sockets' :
              sockets'[w].obj = bridges[c].obj => sockets'[w].readyState = "CLOSING"
         /\ \A t \in DOMAIN timers' : timers'[t].obj # bridges[c].obj]_vars

\* C24: an inbound frame that fails to parse, or whose handling throws, is dropped alone:
\* no callback is invoked and nothing is written for it, the bridges (authenticated flag
\* and queue included), the transports and the timers are as before, and the transport
\* still delivers frames.
C24_MalformedFrameDroppedAlone ==
  [][(lastStep'.op = "message" /\ lastStep'.threw) =>
       /\ lastStep'.cbs = <<>>
       /\ lastStep'.wrote = <<>>
       /\ bridges' = bridges
       /\ sockets' = sockets
       /\ timers' = timers
       /\ sockets'[lastStep'.ws].recv
       /\ ~hung']_vars

\* an unparsable frame was delivered on the open transport of an authenticated session
C24_Witness ==
  /\ lastStep.op = "message"
  /\ lastStep.arg = Malformed
  /\ lastStep.threw
  /\ lastStep.cid \in DOMAIN bridges
  /\ bridges[lastStep.cid].authenticated
  /\ bridges[lastStep.cid].ws = lastStep.ws
  /\ SockState(lastStep.ws) = "OPEN"

\* the step handled a challenge for c whose signing failed or for which no device identity
\* existed
AbandonedChallenge(c) ==
  /\ lastStep'.cid = c
  /\ \/ lastStep'.op = "challengeSignFails"
     \/ lastStep'.op = "message" /\ IsChallenge(lastStep'.arg) /\ deviceIdentity = NoIdentity

\* C25: a challenge whose signing fails, or that arrives while the device identity is
\* absent, writes no connect request and invokes no callback; the bridge (authenticated
\* flag and queue), the transports and the timers are as before.
C25_FailedSigningAbandons ==
  [][\A c \in DOMAIN bridges :
       AbandonedChallenge(c) =>
         /\ lastStep'.wrote = <<>>
         /\ lastStep'.cbs = <<>>
         /\ bridges' = bridges
         /\ sockets' = sockets
         /\ timers' = timers]_vars

\* signing failed for a challenge delivered on the open transport of an unauthenticated
\* session that has a message queued
C25_Witness ==
  /\ lastStep.op = "challengeSignFails"
  /\ lastStep.cid \in DOMAIN bridges
  /\ bridges[lastStep.cid].ws = lastStep.ws
  /\ SockState(lastStep.ws) = "OPEN"
  /\ ~bridges[lastStep.cid].authenticated
  /\ bridges[lastStep.cid].messageQueue # <<>>
  /\ deviceIdentity # NoIdentity

\* data is what the claim says message is translated to
IsClaimedTranslation(data, message) ==
  IF message.type = "message"
    THEN /\ Has(data, "id") /\ data.id \in {"u1", "u2"}
         /\ data = [type |-> "req", id |-> data.id, method |-> "agent",
                    params |-> [message |-> message.text, sessionKey |-> "main",
                                idempotencyKey |-> data.id]]
  ELSE IF message.type = "history"
    THEN /\ Has(data, "id") /\ data.id \in {"u1", "u2"}
         /\ data = [type |-> "req", id |-> data.id, method |-> "sessions.history",
                    params |-> [sessionKey |-> "main",
                                limit |-> IF Has(message, "limit") THEN message.limit ELSE 50]]
  ELSE data = message

C27_NoBridgeAfterDisconnect ==
  \A c \in Clients :
    /\ c \in DOMAIN bridges =>
         c \in DOMAIN clients /\ clients[c].connected /\ validateToken(clients[c].token)
    /\ (c \in DOMAIN clients /\ ~clients[c].connected /\ clients[c].handleDisconnect
          /\ clients[c].handleConnection = "returned") =>
         c \notin DOMAIN bridges /\ c \notin authenticatedClients

\* C28: the onModuleDestroy step leaves the bridges map empty, no reconnect timer armed
\* for one of the bridges pending and every transport opened for one of them closing;
\* and with no bridge left under a client id, a transport's close event arms no timer and
\* an expiring timer opens no transport.
C28_DestroyReleasesEverything ==
  [][/\ lastStep'.op = "onModuleDestroy" =>
          /\ bridges' = <<>>
          /\ \A c \in DOMAIN bridges :
               /\ \A w \in DOMAIN sockets' :
                    sockets'[w].obj = bridges[c].obj => sockets'[w].readyState = "CLOSING"
               /\ \A t \in DOMAIN timers' : timers'[t].obj # bridges[c].obj
     /\ (lastStep'.op = "close" /\ lastStep'.cid \notin DOMAIN bridges) =>
          DOMAIN timers' \subseteq DOMAIN timers
     /\ (lastStep'.op = "timer" /\ lastStep'.cid \notin DOMAIN bridges) =>
          nextWs' = nextWs /\ sockets' = sockets]_vars

====
